---- MODULE Spec2Model ----
(***************************************************************************)
(* Model of zola_page_date_setter.                                         *)
(*                                                                         *)
(*   src/src/processing/file_data.rs  FileData (new / update_front_matter  *)
(*                                    / write), extract_file_data and the  *)
(*                                    date comparison helpers              *)
(*   src/src/processing.rs            walk_directory / process_file        *)
(*                                                                         *)
(* Three specifications share the module:                                  *)
(*   Spec         one file going through extract_file_data,                *)
(*                update_front_matter and write, pass after pass           *)
(*   SpecCompare  the comparison helpers applied to two metadata values    *)
(*   SpecWalk     walk_directory over a directory tree                     *)
(*                                                                         *)
(* toml_edit is a library: a parsed Document is modelled as the sequence   *)
(* of its top-level entries, each value keeping what its text shows (its   *)
(* type, its calendar date, whether a time of day is written).             *)
(***************************************************************************)
EXTENDS Integers, Sequences, FiniteSets, TLC

VARIABLES
    TODAY,            \* the Lazy static TODAY: the day of the run
    last_edit_date,   \* Option<toml_edit::Date>: what git reports for the file
    disk,             \* the text of the file on disk
    pc,               \* where the processing of the file stands
    pass,             \* how many times the file has been read
    changed,          \* FileData.changed
    front_matter,     \* FileData.front_matter
    content,          \* FileData.content
    org_date,         \* update_front_matter's local org_date
    org_updated,      \* update_front_matter's local org_updated
    new_date,         \* update_front_matter's local new_date (Option: none before a call)
    new_updated,      \* update_front_matter's local new_updated
    sanitized,        \* its locals `date` and `updated` when the assumptions are tested
    write_result,     \* what the last call of FileData::write returned
    opens,            \* how many times write opened (and truncated) the file
    prev_out,         \* the (new_date, new_updated) of the previous pass
    cmp,              \* SpecCompare: the operands and the helpers' answers
    walk              \* SpecWalk: the traversal's state

vars == << TODAY, last_edit_date, disk, pc, pass, changed, front_matter, content,
           org_date, org_updated, new_date, new_updated, sanitized, write_result,
           opens, prev_out, cmp, walk >>

fileVars == << TODAY, last_edit_date, disk, pc, pass, changed, front_matter, content,
               org_date, org_updated, new_date, new_updated, sanitized,
               write_result, opens, prev_out >>

----------------------------------------------------------------------------
(* Bounds *)

\* Calendar dates of the comparison helpers' inputs: year 1..NumYears,
\* month 1..NumMonths, day 1..NumDays.
NumYears == 2
NumMonths == 2
NumDays == 2
\* The reconciler's inputs are the first NumDates dates of that calendar.
NumDates == 6
\* How many times one file is read, reconciled and written.
MaxPasses == 2
\* The paths under (and including) the root that walk_directory is given.
MaxNodes == 4

----------------------------------------------------------------------------
(* Data: Option, toml_edit::Date, toml_edit::Item *)

None == << >>
Some(x) == << x >>

Date(y, m, d) == [year |-> y, month |-> m, day |-> d]

DateCube == [year : 1..NumYears, month : 1..NumMonths, day : 1..NumDays]

DateAt(i) ==
    Date(1 + (i \div (NumMonths * NumDays)),
         1 + ((i \div NumDays) % NumMonths),
         1 + (i % NumDays))

Calendar == { DateAt(i) : i \in 0..(NumDates - 1) }

\* An Item: a table (not a Value), a string (a Value that is no Datetime), or
\* a Datetime, whose date part is optional (a TOML local time has none) and
\* which may carry a time of day.
TableItem == [tag |-> "Table", date |-> None, time |-> FALSE]
StringItem == [tag |-> "String", date |-> None, time |-> FALSE]
TimeOnlyItem == [tag |-> "Datetime", date |-> None, time |-> TRUE]
DatetimeItem(d, t) == [tag |-> "Datetime", date |-> Some(d), time |-> t]

ItemsOver(dates) ==
    {TableItem, StringItem, TimeOnlyItem}
        \cup { DatetimeItem(d, t) : d \in dates, t \in BOOLEAN }

item_from_date(d) == DatetimeItem(d, FALSE)

is_datetime(x) == x.tag = "Datetime"

----------------------------------------------------------------------------
(* The comparison helpers *)

\* is_less_than_date with the days compared by <= instead of <
is_less_than_date_day_le(a, b) ==
    /\ a.tag = "Datetime" /\ b.tag = "Datetime"
    /\ a.date # None /\ b.date # None
    /\ LET x == a.date[1]
           y == b.date[1]
       IN  \/ x.year < y.year
           \/ x.year = y.year /\ x.month < y.month
           \/ x.year = y.year /\ x.month = y.month /\ x.day <= y.day

is_less_than_date(a, b) ==
    IF a.tag \in {"String", "Datetime"} /\ b.tag \in {"String", "Datetime"}
    THEN IF a.tag = "Datetime" /\ b.tag = "Datetime"
         THEN IF a.date # None /\ b.date # None
              THEN LET x == a.date[1]
                       y == b.date[1]
                   IN  IF x.year < y.year THEN TRUE
                       ELSE IF x.year = y.year
                            THEN IF x.month < y.month THEN TRUE
                                 ELSE IF x.month = y.month THEN x.day < y.day
                                      ELSE FALSE
                            ELSE FALSE
              ELSE FALSE
         ELSE FALSE
    ELSE FALSE

is_equal_date(a, b) ==
    IF a.tag \in {"String", "Datetime"} /\ b.tag \in {"String", "Datetime"}
    THEN IF a.tag = "Datetime" /\ b.tag = "Datetime"
         THEN IF a.date # None /\ b.date # None
              THEN LET x == a.date[1]
                       y == b.date[1]
                   IN  x.year = y.year /\ x.month = y.month /\ x.day = y.day
              ELSE FALSE
         ELSE FALSE
    ELSE FALSE

is_less_than_or_equal_date(a, b) ==
    is_less_than_date(a, b) \/ is_equal_date(a, b)

----------------------------------------------------------------------------
(* toml_edit::Document: the top-level entries of the front matter, in order *)

Entry(k, v) == [key |-> k, item |-> v]

doc_get(doc, k) ==
    IF \E i \in 1..Len(doc) : doc[i].key = k
    THEN Some(doc[CHOOSE i \in 1..Len(doc) : doc[i].key = k].item)
    ELSE None

\* doc.entry(k): an occupied entry is overwritten in place, a vacant one is
\* inserted after the last entry.
doc_entry_set(doc, k, v) ==
    IF \E i \in 1..Len(doc) : doc[i].key = k
    THEN [i \in 1..Len(doc) |-> IF doc[i].key = k THEN Entry(k, v) ELSE doc[i]]
    ELSE Append(doc, Entry(k, v))

doc_remove(doc, k) == SelectSeq(doc, LAMBDA e : e.key # k)

\* The front matter text: TOML that parses to the entries, or text that does not parse.
Toml(doc) == [valid |-> TRUE, entries |-> doc]
NotToml == [valid |-> FALSE, entries |-> << >>]

----------------------------------------------------------------------------
(* FileData::update_front_matter, step by step *)

\* "Check for wrong type"
CheckType(x) ==
    IF x # None /\ ~is_datetime(x[1]) THEN None ELSE x

\* "Ensure if updated exists it is greater than or equal to date otherwise discard value"
CheckOrder(date, updated) ==
    IF updated # None /\ date # None /\ is_less_than_date(updated[1], date[1])
    THEN None
    ELSE updated

\* "Clear date if it is in the future": the first test
ClearFutureDate(date, today) ==
    IF date # None /\ is_less_than_date(today, date[1]) THEN None ELSE date

\* The second test looks at `updated` and assigns `date`: the value of `date` after it
ClearFutureUpdated(date, updated, today) ==
    IF updated # None /\ is_less_than_date(today, updated[1]) THEN None ELSE date

\* The values of the locals `date` and `updated` when the decision table is reached
Sanitize(d0, u0, today) ==
    LET date1 == CheckType(d0)
        updated1 == CheckType(u0)
        updated2 == CheckOrder(date1, updated1)
        date2 == ClearFutureDate(date1, today)
        date3 == ClearFutureUpdated(date2, updated2, today)
    IN  [date |-> date3, updated |-> updated2]

\* The three debug_assert! before the decision table
Assumptions(date, updated, today) ==
    /\ date = None \/ is_less_than_or_equal_date(date[1], today)
    /\ updated = None \/ is_less_than_or_equal_date(updated[1], today)
    /\ date = None \/ updated = None \/ is_less_than_or_equal_date(date[1], updated[1])

\* The match taking `date` from the last edit whenever git reports one, also
\* when the file has a `date`
DecisionTable_date_from_last(last, date, updated, today) ==
    IF last = None /\ date = None
    THEN [new_date |-> today, new_updated |-> None]
    ELSE IF last = None
    THEN IF is_equal_date(date[1], today)
         THEN [new_date |-> date[1], new_updated |-> None]
         ELSE [new_date |-> date[1], new_updated |-> Some(today)]
    ELSE IF is_equal_date(item_from_date(last[1]), today)
         THEN [new_date |-> item_from_date(last[1]), new_updated |-> None]
         ELSE [new_date |-> item_from_date(last[1]), new_updated |-> Some(today)]

\* match (last_edit_date, date, updated)
DecisionTable(last, date, updated, today) ==
    IF last = None /\ date = None
    THEN [new_date |-> today, new_updated |-> None]
    ELSE IF last = None
    THEN IF is_equal_date(date[1], today)
         THEN [new_date |-> date[1], new_updated |-> None]
         ELSE [new_date |-> date[1], new_updated |-> Some(today)]
    ELSE IF date = None
    THEN IF is_equal_date(item_from_date(last[1]), today)
         THEN [new_date |-> item_from_date(last[1]), new_updated |-> None]
         ELSE [new_date |-> item_from_date(last[1]), new_updated |-> Some(today)]
    ELSE IF updated = None
    THEN IF is_less_than_or_equal_date(item_from_date(last[1]), date[1])
         THEN [new_date |-> date[1], new_updated |-> None]
         ELSE [new_date |-> date[1], new_updated |-> Some(today)]
    ELSE IF is_less_than_or_equal_date(item_from_date(last[1]), updated[1])
         THEN [new_date |-> date[1], new_updated |-> Some(updated[1])]
         ELSE [new_date |-> date[1], new_updated |-> Some(today)]

\* is_new_same_as_org comparing the stored values themselves instead of their
\* calendar dates
is_new_same_as_org_textual(od, ou, nd, nu) ==
    od = Some(nd) /\ ou = nu

\* "Check if we've changed the starting values"
is_new_same_as_org(od, ou, nd, nu) ==
    LET is_date_same == od # None /\ is_equal_date(od[1], nd)
        did_update_start_and_end_none ==
            ou = None /\ ((ou = None) = (nu = None))
        did_updated_start_some_and_end_same_value ==
            ou # None /\ nu # None /\ is_equal_date(ou[1], nu[1])
        is_update_same ==
            did_update_start_and_end_none \/ did_updated_start_some_and_end_same_value
    IN  is_date_same /\ is_update_same

\* doc_with_dates building a new document that holds the two dates only
doc_with_dates_rebuilt(doc, nd, nu) ==
    IF nu # None THEN << [key |-> "date", item |-> nd], [key |-> "updated", item |-> nu[1]] >>
                 ELSE << [key |-> "date", item |-> nd] >>

\* The document after the entries are set (the body of `if !is_new_same_as_org`)
doc_with_dates(doc, nd, nu) ==
    LET d1 == doc_entry_set(doc, "date", nd)
    IN  IF nu # None THEN doc_entry_set(d1, "updated", nu[1])
                     ELSE doc_remove(d1, "updated")

----------------------------------------------------------------------------
(* The file on disk *)

\* The text of a file: with the +++ delimiters TOML_RE finds or without them,
\* the front matter between them, whether a blank line follows the closing
\* delimiter, and the content.
FileText(fm, body) ==
    [delimited |-> TRUE, front_matter |-> fm, blank |-> body # "", content |-> body]
NoFrontMatterText ==
    [delimited |-> FALSE, front_matter |-> NotToml, blank |-> FALSE, content |-> "text"]
EmptyText ==
    [delimited |-> FALSE, front_matter |-> NotToml, blank |-> FALSE, content |-> ""]

\* Values the `date` and `updated` keys of an input file hold
FileItems == ItemsOver(Calendar) \ {TableItem}
OptFileItems == {None} \cup { Some(v) : v \in FileItems }

EntryOf(k, opt) == IF opt = None THEN << >> ELSE << Entry(k, opt[1]) >>

\* Front matters of the input files: `date` and `updated` in either order,
\* after a `title` or with no other key.
InputDocs ==
    { t \o EntryOf("date", d) \o EntryOf("updated", u) :
        t \in {<< >>, << Entry("title", StringItem) >>},
        d \in OptFileItems, u \in OptFileItems }
    \cup
    { t \o EntryOf("updated", u) \o EntryOf("date", d) :
        t \in {<< >>, << Entry("title", StringItem) >>},
        d \in OptFileItems, u \in OptFileItems }

InputTexts ==
    { FileText(Toml(doc), body) : doc \in InputDocs, body \in {"", "body"} }
    \cup {FileText(NotToml, "body"), NoFrontMatterText}

TodayItem == item_from_date(TODAY)

\* update_front_matter not called yet
NotSanitized == [date |-> None, updated |-> None]

NoCompare == [a |-> StringItem, b |-> StringItem, lt |-> FALSE, eq |-> FALSE,
              le |-> FALSE, done |-> FALSE]
NoWalk == [kind |-> << >>, parent |-> << >>, status |-> << >>, stack |-> << >>,
           result |-> "none", logged |-> << >>, visited |-> << >>,
           dir_failure |-> FALSE]

----------------------------------------------------------------------------
(* Spec: one file, read, reconciled and written, pass after pass *)

Init ==
    /\ TODAY \in Calendar
    /\ last_edit_date \in {None} \cup { Some(d) : d \in Calendar }
    /\ disk \in InputTexts
    /\ pc = "start"
    /\ pass = 0
    /\ changed = FALSE
    /\ front_matter = NotToml
    /\ content = ""
    /\ org_date = None
    /\ org_updated = None
    /\ new_date = None
    /\ new_updated = None
    /\ sanitized = NotSanitized
    /\ write_result = "none"
    /\ opens = 0
    /\ prev_out = None
    /\ cmp = NoCompare
    /\ walk = NoWalk

\* A pass starts on a file not yet read, or read and written before.
CanStartPass ==
    \/ pc = "start"
    \/ pc = "written" /\ write_result \in {"Ok", "NoChange"} /\ pass < MaxPasses

\* FileData::new
new(fm, body) ==
    /\ changed' = FALSE
    /\ front_matter' = fm
    /\ content' = body

\* extract_file_data: TOML_RE finds the front matter
ExtractFileData ==
    /\ CanStartPass
    /\ disk.delimited
    /\ new(disk.front_matter, disk.content)
    /\ pc' = "extracted"
    /\ pass' = pass + 1
    /\ prev_out' = IF pc = "written" THEN Some(<< new_date, new_updated >>) ELSE None
    /\ write_result' = "none"
    /\ UNCHANGED << sanitized, TODAY, last_edit_date, disk, org_date, org_updated, new_date,
                    new_updated, opens, cmp, walk >>

\* extract_file_data: "Failed to read file" or "Failed to find front matter"
ExtractFails ==
    /\ CanStartPass
    /\ pc' = "extract_failed"
    /\ pass' = pass + 1
    /\ UNCHANGED << sanitized, TODAY, last_edit_date, disk, changed, front_matter, content,
                    org_date, org_updated, new_date, new_updated, write_result,
                    opens, prev_out, cmp, walk >>

\* update_front_matter: "Failed to parse TOML in front matter"
UpdateParseFails ==
    /\ pc = "extracted"
    /\ ~front_matter.valid
    /\ pc' = "update_failed"
    /\ UNCHANGED << sanitized, TODAY, last_edit_date, disk, pass, changed, front_matter, content,
                    org_date, org_updated, new_date, new_updated, write_result,
                    opens, prev_out, cmp, walk >>

\* update_front_matter in a build with debug assertions: an assumption fails
UpdatePanics ==
    /\ pc = "extracted"
    /\ front_matter.valid
    /\ LET s == Sanitize(doc_get(front_matter.entries, "date"),
                         doc_get(front_matter.entries, "updated"), TodayItem)
       IN  /\ ~Assumptions(s.date, s.updated, TodayItem)
           /\ sanitized' = s
    /\ pc' = "panicked"
    /\ UNCHANGED << TODAY, last_edit_date, disk, pass, changed, front_matter, content,
                    org_date, org_updated, new_date, new_updated, write_result,
                    opens, prev_out, cmp, walk >>

\* update_front_matter returning Ok (in a build without debug assertions the
\* assumptions are not tested)
UpdateFrontMatter ==
    /\ pc = "extracted"
    /\ front_matter.valid
    /\ LET doc == front_matter.entries
           od == doc_get(doc, "date")
           ou == doc_get(doc, "updated")
           s == Sanitize(od, ou, TodayItem)
           t == DecisionTable(last_edit_date, s.date, s.updated, TodayItem)
           same == is_new_same_as_org(od, ou, t.new_date, t.new_updated)
       IN  /\ sanitized' = s
           /\ org_date' = od
           /\ org_updated' = ou
           /\ new_date' = Some(t.new_date)
           /\ new_updated' = t.new_updated
           /\ changed' = IF same THEN changed ELSE TRUE
           /\ front_matter' = IF same THEN front_matter
                              ELSE Toml(doc_with_dates(doc, t.new_date, t.new_updated))
    /\ pc' = "updated"
    /\ UNCHANGED << TODAY, last_edit_date, disk, pass, content, write_result, opens,
                    prev_out, cmp, walk >>

is_changed == changed

\* write without the test of is_changed: the unchanged record is written out
WriteUnchanged ==
    /\ pc = "updated"
    /\ ~changed
    /\ disk' = FileText(front_matter, content)
    /\ opens' = opens + 1
    /\ write_result' = "Ok"
    /\ pc' = "written"
    /\ UNCHANGED << sanitized, TODAY, last_edit_date, pass, changed, front_matter, content,
                    org_date, org_updated, new_date, new_updated, prev_out, cmp, walk >>

\* FileData::write: "No change detected. Write aborted."
WriteRefused ==
    /\ pc = "updated"
    /\ ~is_changed
    /\ write_result' = "NoChange"
    /\ pc' = "written"
    /\ UNCHANGED << sanitized, TODAY, last_edit_date, disk, pass, changed, front_matter, content,
                    org_date, org_updated, new_date, new_updated, opens, prev_out,
                    cmp, walk >>

\* FileData::write: the file cannot be opened
WriteOpenFails ==
    /\ pc = "updated"
    /\ is_changed
    /\ write_result' = "OpenFailed"
    /\ pc' = "written"
    /\ UNCHANGED << sanitized, TODAY, last_edit_date, disk, pass, changed, front_matter, content,
                    org_date, org_updated, new_date, new_updated, opens, prev_out,
                    cmp, walk >>

\* FileData::write: the file is opened and truncated, write_all fails
WriteAllFails ==
    /\ pc = "updated"
    /\ is_changed
    /\ disk' = EmptyText
    /\ opens' = opens + 1
    /\ write_result' = "WriteFailed"
    /\ pc' = "written"
    /\ UNCHANGED << sanitized, TODAY, last_edit_date, pass, changed, front_matter, content,
                    org_date, org_updated, new_date, new_updated, prev_out, cmp, walk >>

\* FileData::write returning Ok
Write ==
    /\ pc = "updated"
    /\ is_changed
    /\ disk' = FileText(front_matter, content)
    /\ opens' = opens + 1
    /\ write_result' = "Ok"
    /\ pc' = "written"
    /\ UNCHANGED << sanitized, TODAY, last_edit_date, pass, changed, front_matter, content,
                    org_date, org_updated, new_date, new_updated, prev_out, cmp, walk >>

Next ==
    \/ ExtractFileData
    \/ ExtractFails
    \/ UpdateParseFails
    \/ UpdatePanics
    \/ UpdateFrontMatter
    \/ WriteRefused
    \/ WriteOpenFails
    \/ WriteAllFails
    \/ Write

Spec == Init /\ [][Next]_vars

----------------------------------------------------------------------------
(* SpecCompare: the helpers on two metadata values *)

CompareItems == ItemsOver(DateCube)

InitCompare ==
    /\ cmp \in [a : CompareItems, b : CompareItems, lt : {FALSE}, eq : {FALSE},
                le : {FALSE}, done : {FALSE}]
    /\ TODAY = DateAt(0)
    /\ last_edit_date = None
    /\ disk = EmptyText
    /\ pc = "compare"
    /\ pass = 0
    /\ changed = FALSE
    /\ front_matter = NotToml
    /\ content = ""
    /\ org_date = None
    /\ org_updated = None
    /\ new_date = None
    /\ new_updated = None
    /\ sanitized = NotSanitized
    /\ write_result = "none"
    /\ opens = 0
    /\ prev_out = None
    /\ walk = NoWalk

Compare ==
    /\ pc = "compare"
    /\ ~cmp.done
    /\ cmp' = [cmp EXCEPT !.lt = is_less_than_date(cmp.a, cmp.b),
                          !.eq = is_equal_date(cmp.a, cmp.b),
                          !.le = is_less_than_or_equal_date(cmp.a, cmp.b),
                          !.done = TRUE]
    /\ UNCHANGED << fileVars, walk >>

NextCompare == Compare

SpecCompare == InitCompare /\ [][NextCompare]_vars

----------------------------------------------------------------------------
(* SpecWalk: walk_directory over a tree of paths *)

\* A path is a markdown file process_file handles ("md"), a file
\* should_skip_file skips ("other"), a directory ("dir"), or a path that is no
\* file and cannot be read as a directory ("baddir").
PathKinds == {"md", "other", "dir", "baddir"}
Stages == {"extract", "git", "update", "write"}

\* Trees of 1..MaxNodes paths, path 1 the root; a path's parent is a directory
\* numbered before it.
WellFormed(k, p) ==
    \A i \in 2..Len(k) : p[i] < i /\ k[p[i]] = "dir"

Children(w, n) == { c \in 1..Len(w.kind) : w.parent[c] = n }

InitWalk ==
    /\ \E n \in 1..MaxNodes :
          \E k \in [1..n -> PathKinds], p \in [2..n -> 1..(n - 1)] :
             /\ WellFormed(k, p)
             /\ walk = [kind |-> k,
                        parent |-> [i \in 1..n |-> IF i = 1 THEN 0 ELSE p[i]],
                        status |-> [i \in 1..n |-> "unvisited"],
                        stack |-> << >>, result |-> "none", logged |-> << >>,
                        visited |-> << >>, dir_failure |-> FALSE]
    /\ cmp = NoCompare
    /\ TODAY = DateAt(0)
    /\ last_edit_date = None
    /\ disk = EmptyText
    /\ pc = "walk"
    /\ pass = 0
    /\ changed = FALSE
    /\ front_matter = NotToml
    /\ content = ""
    /\ org_date = None
    /\ org_updated = None
    /\ new_date = None
    /\ new_updated = None
    /\ sanitized = NotSanitized
    /\ write_result = "none"
    /\ opens = 0
    /\ prev_out = None

\* walk_directory is called on path n: the first call, on the root, or the
\* call the loop of the innermost running call makes on an entry.
IsCalled(n) ==
    /\ pc = "walk"
    /\ walk.result = "none"
    /\ IF walk.stack = << >>
       THEN n = 1 /\ walk.status[1] = "unvisited"
       ELSE n \in walk.stack[Len(walk.stack)].todo

is_file(n) == walk.kind[n] \in {"md", "other"}

should_skip_file(n) == walk.kind[n] # "md"

\* The stack once the call on n is taken from its caller's entries
Taken(n) ==
    IF walk.stack = << >> THEN << >>
    ELSE [walk.stack EXCEPT ![Len(walk.stack)].todo = @ \ {n}]

\* walk_directory's result once a call on a file has returned: the first call
\* returns Ok(()), an inner one lets its caller's loop go on.
AfterFile == IF walk.stack = << >> THEN "Ok" ELSE "none"

\* The Err of process_file passed to the caller with `?` instead of logged
FileErrorPropagated(n) ==
    [walk EXCEPT !.status[n] = "failed",
                 !.visited = Append(@, n),
                 !.stack = << >>,
                 !.result = "Err"]

\* What walk_directory does with an Err of process_file: error!("{e:?}"), and
\* the call goes on to its Ok(())
FileErrorLogged(n) ==
    [walk EXCEPT !.status[n] = "failed",
                 !.visited = Append(@, n),
                 !.logged = Append(@, n),
                 !.stack = Taken(n),
                 !.result = AfterFile]

\* process_file returning Ok: the file is extracted, updated and written
ProcessFile(n) ==
    /\ IsCalled(n)
    /\ is_file(n)
    /\ ~should_skip_file(n)
    /\ walk' = [walk EXCEPT !.status[n] = "processed",
                            !.visited = Append(@, n),
                            !.stack = Taken(n),
                            !.result = AfterFile]
    /\ UNCHANGED << fileVars, cmp >>

\* process_file on a file should_skip_file skips
ProcessFileSkips(n) ==
    /\ IsCalled(n)
    /\ is_file(n)
    /\ should_skip_file(n)
    /\ walk' = [walk EXCEPT !.status[n] = "skipped",
                            !.visited = Append(@, n),
                            !.stack = Taken(n),
                            !.result = AfterFile]
    /\ UNCHANGED << fileVars, cmp >>

\* process_file returning Err at one of its four `?`
ProcessFileFails(n, stage) ==
    /\ IsCalled(n)
    /\ is_file(n)
    /\ ~should_skip_file(n)
    /\ stage \in Stages
    /\ walk' = FileErrorLogged(n)
    /\ UNCHANGED << fileVars, cmp >>

\* fs::read_dir succeeds: the loop over the entries starts
ReadDir(n) ==
    /\ IsCalled(n)
    /\ ~is_file(n)
    /\ walk.kind[n] = "dir"
    /\ walk' = [walk EXCEPT !.status[n] = "entered",
                            !.stack = Append(Taken(n),
                                             [path |-> n, todo |-> Children(walk, n)])]
    /\ UNCHANGED << fileVars, cmp >>

\* fs::read_dir fails: "Failed to read directory", passed up by every caller's `?`
ReadDirFails(n) ==
    /\ IsCalled(n)
    /\ ~is_file(n)
    /\ walk.kind[n] = "baddir"
    /\ walk' = [walk EXCEPT !.status[n] = "unreadable",
                            !.stack = << >>,
                            !.result = "Err",
                            !.dir_failure = TRUE]
    /\ UNCHANGED << fileVars, cmp >>

\* An entry of the directory being read is an Err: "Failed to extract a DirEntry"
DirEntryFails ==
    /\ pc = "walk"
    /\ walk.result = "none"
    /\ walk.stack # << >>
    /\ walk.stack[Len(walk.stack)].todo # {}
    /\ walk' = [walk EXCEPT !.stack = << >>,
                            !.result = "Err",
                            !.dir_failure = TRUE]
    /\ UNCHANGED << fileVars, cmp >>

\* The loop of the innermost call is over: it returns Ok(())
WalkReturns ==
    /\ pc = "walk"
    /\ walk.result = "none"
    /\ walk.stack # << >>
    /\ walk.stack[Len(walk.stack)].todo = {}
    /\ walk' = [walk EXCEPT !.stack = SubSeq(@, 1, Len(@) - 1),
                            !.result = IF Len(walk.stack) = 1 THEN "Ok" ELSE "none"]
    /\ UNCHANGED << fileVars, cmp >>

NextWalk ==
    \/ \E n \in 1..MaxNodes : ProcessFile(n)
    \/ \E n \in 1..MaxNodes : ProcessFileSkips(n)
    \/ \E n \in 1..MaxNodes, stage \in Stages : ProcessFileFails(n, stage)
    \/ \E n \in 1..MaxNodes : ReadDir(n)
    \/ \E n \in 1..MaxNodes : ReadDirFails(n)
    \/ DirEntryFails
    \/ WalkReturns

SpecWalk == InitWalk /\ [][NextWalk]_vars

----------------------------------------------------------------------------
(* Calendar dates as the specification speaks of them: a value is a calendar *)
(* date when it is a datetime with a date part, and dates are ordered by     *)
(* (year, month, day).                                                       *)

IsCalendarDate(v) == v.tag = "Datetime" /\ v.date # None

\* Months are below 13 and days below 32, so this number orders the dates.
DayNumber(v) == ((v.date[1].year * 13) + v.date[1].month) * 32 + v.date[1].day

DateLess(a, b) == IsCalendarDate(a) /\ IsCalendarDate(b) /\ DayNumber(a) < DayNumber(b)
DateEqual(a, b) == IsCalendarDate(a) /\ IsCalendarDate(b) /\ DayNumber(a) = DayNumber(b)
DateLessOrEqual(a, b) ==
    IsCalendarDate(a) /\ IsCalendarDate(b) /\ DayNumber(a) <= DayNumber(b)

\* update_front_matter has returned Ok in this pass: its locals are those of this pass
Reconciled == pc \in {"updated", "written"}

AfterToday(v) == v # None /\ DateLess(TodayItem, v[1])

----------------------------------------------------------------------------
(* C1 *)

\* C1: whatever last_edit, `date` and `updated` are, the values
\* update_front_matter computes satisfy new_date <= today and, when
\* new_updated is present, new_date <= new_updated <= today.
\* The code breaks it: a last_edit after today becomes new_date, and a `date`
\* that is a datetime without a date part is kept as new_date.
C1_OutputWithinToday ==
    Reconciled =>
        /\ new_date # None
        /\ DateLessOrEqual(new_date[1], TodayItem)
        /\ new_updated # None =>
              /\ DateLessOrEqual(new_date[1], new_updated[1])
              /\ DateLessOrEqual(new_updated[1], TodayItem)

----------------------------------------------------------------------------
(* C2 *)

\* C2: an existing `date` that is a calendar date not after today is left
\* unchanged, whatever last_edit and the existing `updated` are.
\* The code breaks it: an `updated` after today clears `date`.
C2_DateKept ==
    (Reconciled /\ org_date # None /\ DateLessOrEqual(org_date[1], TodayItem))
        => DateEqual(new_date[1], org_date[1])

----------------------------------------------------------------------------
(* C3 *)

\* The reference of the claim: a value that is no calendar date is absent, an
\* `updated` before `date` is absent, then the table.
RefPresent(v) == IF v # None /\ IsCalendarDate(v[1]) THEN v ELSE None

RefTable(last, d, u, t) ==
    CASE last = None /\ d = None -> << t, None >>
      [] last = None /\ d # None ->
            << d[1], IF DateEqual(d[1], t) THEN None ELSE Some(t) >>
      [] last # None /\ d = None ->
            << item_from_date(last[1]),
               IF DateEqual(item_from_date(last[1]), t) THEN None ELSE Some(t) >>
      [] last # None /\ d # None /\ u = None ->
            << d[1], IF DateLessOrEqual(item_from_date(last[1]), d[1]) THEN None ELSE Some(t) >>
      [] OTHER ->
            << d[1], IF DateLessOrEqual(item_from_date(last[1]), u[1]) THEN u ELSE Some(t) >>

Reference(last, d0, u0, t) ==
    LET d == RefPresent(d0)
        u1 == RefPresent(u0)
        u == IF d # None /\ u1 # None /\ DateLess(u1[1], d[1]) THEN None ELSE u1
    IN  RefTable(last, d, u, t)

\* C3: when neither the existing `date` nor the existing `updated` is after
\* today, (new_date, new_updated) is what the reference gives.
\* The code breaks it: a datetime without a date part is not treated as absent.
C3_MatchesDecisionTable ==
    (Reconciled /\ ~AfterToday(org_date) /\ ~AfterToday(org_updated))
        => << new_date[1], new_updated >>
              = Reference(last_edit_date, org_date, org_updated, TodayItem)

----------------------------------------------------------------------------
(* C4 *)

\* C4: a second run on a record whose `date` and `updated` are the first run's
\* new_date and new_updated, with the same last_edit and today, leaves changed
\* false and computes the same (new_date, new_updated).
\* The code breaks it: a `date` without a date part is rewritten by every run.
C4_Idempotent ==
    (Reconciled /\ pass >= 2 /\ prev_out = Some(<< org_date, org_updated >>))
        => /\ ~changed
           /\ << new_date, new_updated >> = prev_out[1]

----------------------------------------------------------------------------
(* C5 *)

\* The condition under which the claim says changed stays false
SameAsOriginal ==
    /\ org_date # None /\ DateEqual(org_date[1], new_date[1])
    /\ \/ org_updated = None /\ new_updated = None
       \/ /\ org_updated # None
          /\ new_updated # None
          /\ DateEqual(org_updated[1], new_updated[1])

\* C5: update_front_matter sets changed exactly when the original `date` and
\* `updated` are not calendar-equal to the new ones (an absent `updated`
\* matching an absent one); a present value that is no calendar date always
\* sets it, and a discarded value whose calendar date comes out again does not.
C5_ChangedIffDatesDiffer ==
    Reconciled =>
        /\ changed <=> ~SameAsOriginal
        /\ (org_date # None /\ ~IsCalendarDate(org_date[1])) => changed
        /\ (org_updated # None /\ ~IsCalendarDate(org_updated[1])) => changed

\* A `date` after today is discarded, last_edit brings the same day back and
\* nothing is marked changed.
C5_Witness ==
    /\ pc = "updated"
    /\ AfterToday(org_date)
    /\ org_date[1] # new_date[1]
    /\ ~changed

----------------------------------------------------------------------------
(* C6 *)

\* C6: a record is created with changed = false, only update_front_matter sets
\* it, and write on a record whose changed is false returns the error without
\* opening or modifying the file.
C6_WriteRefusedWhenUnchanged ==
    /\ [](pc = "extracted" => ~changed)
    /\ [][(~changed /\ changed') => (pc = "extracted" /\ pc' = "updated")]_vars
    /\ [][(pc = "updated" /\ pc' = "written" /\ ~changed)
            => (write_result' = "NoChange" /\ disk' = disk /\ opens' = opens)]_vars

C6_Witness ==
    /\ pc = "written"
    /\ ~changed
    /\ write_result = "NoChange"
    /\ opens = 0

----------------------------------------------------------------------------
(* C9 *)

OtherEntries(doc) == SelectSeq(doc, LAMBDA e : e.key \notin {"date", "updated"})

\* C9: after update_front_matter the entries other than `date` and `updated`,
\* and the content, are those read from the file; when changed is false the
\* front matter is the text read from the file.
C9_OnlyDatesTouched ==
    pc = "updated" =>
        /\ front_matter.valid
        /\ OtherEntries(front_matter.entries) = OtherEntries(disk.front_matter.entries)
        /\ content = disk.content
        /\ ~changed => front_matter = disk.front_matter

\* The dates of a file with a title are rewritten.
C9_Witness ==
    /\ pc = "updated"
    /\ changed
    /\ front_matter # disk.front_matter
    /\ OtherEntries(front_matter.entries) # << >>

----------------------------------------------------------------------------
(* C10 *)

LexLess(x, y) ==
    \/ x.year < y.year
    \/ x.year = y.year /\ x.month < y.month
    \/ x.year = y.year /\ x.month = y.month /\ x.day < y.day

\* C10: is_less_than_date is true exactly for two calendar dates in
\* lexicographic (year, month, day) order, is_equal_date exactly for two
\* calendar dates with equal fields, is_less_than_or_equal_date is their
\* disjunction; all three are false when an operand is no calendar date.
C10_HelpersCompareCalendarDates ==
    cmp.done =>
        LET bothDates == IsCalendarDate(cmp.a) /\ IsCalendarDate(cmp.b)
        IN  /\ cmp.lt <=> (bothDates /\ LexLess(cmp.a.date[1], cmp.b.date[1]))
            /\ cmp.eq <=> (bothDates /\ cmp.a.date[1] = cmp.b.date[1])
            /\ cmp.le <=> (cmp.lt \/ cmp.eq)
            /\ ~bothDates => (~cmp.lt /\ ~cmp.eq /\ ~cmp.le)
            /\ (bothDates /\ cmp.a = cmp.b) => (~cmp.lt /\ cmp.eq /\ cmp.le)
            /\ (bothDates /\ DateLess(cmp.a, cmp.b)) => (cmp.lt /\ cmp.le /\ ~cmp.eq)
            /\ (bothDates /\ DateLess(cmp.b, cmp.a)) => (~cmp.lt /\ ~cmp.le)

\* An earlier year decides although the month and the day are later.
C10_Witness ==
    /\ cmp.done
    /\ cmp.lt
    /\ cmp.a.date[1].month > cmp.b.date[1].month
    /\ cmp.a.date[1].day > cmp.b.date[1].day

----------------------------------------------------------------------------
(* C7, C8 *)

Paths == 1..Len(walk.kind)
Failed == { n \in Paths : walk.status[n] = "failed" }
InSeq(q, n) == \E i \in 1..Len(q) : q[i] = n
Before(q, m, n) == \E i, j \in 1..Len(q) : i < j /\ q[i] = m /\ q[j] = n

\* C7: a file whose processing fails is logged and stops nothing: when
\* walk_directory returns Ok every path under the root was visited and every
\* markdown file processed (or failed and logged), and walk_directory returns
\* an error only after a directory or a directory entry could not be read.
C7_FileFailuresIsolated ==
    /\ \A n \in Paths : walk.status[n] = "failed" <=> InSeq(walk.logged, n)
    /\ walk.result = "Err" => walk.dir_failure
    /\ walk.result = "Ok" =>
          \A n \in Paths :
             /\ walk.status[n] # "unvisited"
             /\ walk.kind[n] = "md" => walk.status[n] \in {"processed", "failed"}
             /\ walk.kind[n] = "other" => walk.status[n] = "skipped"

\* A file fails, a file visited after it is processed, and the walk ends Ok.
C7_Witness ==
    /\ walk.result = "Ok"
    /\ \E f, g \in Paths :
          /\ walk.status[f] = "failed"
          /\ walk.status[g] = "processed"
          /\ Before(walk.visited, f, g)

\* C8: walk_directory's result is an error when a file's processing failed,
\* and success only when none failed.
\* The code breaks it: the failure is logged and the result is Ok(()).
C8_ResultReflectsFileFailures ==
    walk.result # "none" => (Failed # {} => walk.result = "Err")

----------------------------------------------------------------------------
(* C11, C12 *)

\* The `updated` that is left after the type and the ordering steps is a
\* calendar date after today.
UpdatedLeftAfterToday ==
    /\ AfterToday(org_updated)
    /\ ~(org_date # None /\ DateLess(org_updated[1], org_date[1]))

\* C11: when the `updated` left by the type and the ordering steps is after
\* today, the step discards `updated`, and a `date` that is a calendar date not
\* after today is still there when the decision table is applied.
\* The code breaks it: the step assigns None to `date` and leaves `updated`.
C11_FutureUpdatedDiscarded ==
    (Reconciled /\ UpdatedLeftAfterToday)
        => /\ sanitized.updated = None
           /\ (org_date # None /\ DateLessOrEqual(org_date[1], TodayItem))
                 => sanitized.date = org_date

\* The three debug_assert! have been evaluated in this pass (and failed, in a
\* build that tests them, when the call panicked).
AssumptionsReached == pc \in {"updated", "written", "panicked"}

\* C12: for every input, when the decision table is reached `date`, if present,
\* is not after today, `updated`, if present, is not after today, and
\* date <= updated when both are present.
\* The code breaks it: an `updated` after today is left in place, and a
\* datetime without a date part passes every sanitization step.
C12_AssumptionsHold ==
    AssumptionsReached =>
        /\ sanitized.date # None => DateLessOrEqual(sanitized.date[1], TodayItem)
        /\ sanitized.updated # None => DateLessOrEqual(sanitized.updated[1], TodayItem)
        /\ (sanitized.date # None /\ sanitized.updated # None)
              => DateLessOrEqual(sanitized.date[1], sanitized.updated[1])

----------------------------------------------------------------------------
(* C13. SpecRuns: the program run again and again on one file *)

\* A Date is not after another one.
NotAfter(a, b) == DateLessOrEqual(item_from_date(a), item_from_date(b))

\* The last edit git reports is no commit at all or one not after the day t.
LastEditWithin(l, t) == IF l = None THEN TRUE ELSE NotAfter(l[1], t)

InitRuns ==
    /\ Init
    /\ LastEditWithin(last_edit_date, TODAY)

\* The first run of the program reads the file.
FirstRun ==
    /\ pc = "start"
    /\ ExtractFileData

\* A later run of the program reads what the run before left on disk: TODAY is
\* computed anew, not before the day of the run before, and git reports a last
\* edit that is absent or not after it.
NextRun ==
    /\ pc = "written"
    /\ write_result \in {"Ok", "NoChange"}
    /\ pass < MaxPasses
    /\ disk.delimited
    /\ \E t \in Calendar, l \in {None} \cup { Some(d) : d \in Calendar } :
          /\ NotAfter(TODAY, t)
          /\ LastEditWithin(l, t)
          /\ TODAY' = t
          /\ last_edit_date' = l
    /\ new(disk.front_matter, disk.content)
    /\ pc' = "extracted"
    /\ pass' = pass + 1
    /\ prev_out' = Some(<< new_date, new_updated >>)
    /\ write_result' = "none"
    /\ UNCHANGED << sanitized, disk, org_date, org_updated, new_date, new_updated,
                    opens, cmp, walk >>

NextRuns ==
    \/ FirstRun
    \/ NextRun
    \/ ExtractFails
    \/ UpdateParseFails
    \/ UpdatePanics
    \/ UpdateFrontMatter
    \/ WriteRefused
    \/ WriteOpenFails
    \/ WriteAllFails
    \/ Write

SpecRuns == InitRuns /\ [][NextRuns]_vars

\* Two optional values hold the same calendar date, or are the same value.
SameDate(a, b) == a = b \/ (a # None /\ b # None /\ DateEqual(a[1], b[1]))

\* A run after the first one has reconciled the file.
LaterRun == Reconciled /\ prev_out # None

prev_date == prev_out[1][1]
prev_updated == prev_out[1][2]

\* C13 (as stated): in every run after the first, `date` is the `date` of the
\* run before, and `updated`, when it differs from the one of the run before,
\* is that run's today.
C13_DateStableUpdatedToday ==
    LaterRun =>
        /\ SameDate(new_date, prev_date)
        /\ ~SameDate(new_updated, prev_updated) => SameDate(new_updated, Some(TodayItem))

\* `updated` is removed by the branch for a file never committed whose `date`
\* is today.
UpdatedCleared ==
    /\ new_updated = None
    /\ last_edit_date = None
    /\ DateEqual(new_date[1], TodayItem)

\* C13 (amended): in every run after the first, `date` is the `date` of the
\* run before, and `updated`, when it differs from the one of the run before,
\* is that run's today, or is removed when that run's last_edit is absent and
\* `date` is that run's today.
C13_DateStableUpdatedTodayOrCleared ==
    LaterRun =>
        /\ new_date = prev_date
        /\ ~SameDate(new_updated, prev_updated)
              => (SameDate(new_updated, Some(TodayItem)) \/ UpdatedCleared)

\* A later run on a later day keeps `date` and turns an older `updated` into
\* that day.
C13_Witness ==
    /\ LaterRun
    /\ new_date = prev_date
    /\ prev_updated # None
    /\ DateLess(prev_updated[1], TodayItem)
    /\ new_updated = Some(TodayItem)

====
